---- MODULE Spec2Model ----
(***************************************************************************)
(* Resource-lifecycle layer of loyal-backend:                              *)
(*   - the lazily constructed singletons (DatabaseFactory, PhalaFactory,   *)
(*     SecretsFactory, AsyncSingleton) under cooperative asyncio tasks;    *)
(*   - the session scopes and query runners of shared/database.py.         *)
(*   - the text of a query on its way to the server;                       *)
(*   - the relay of a query to the completion API;                         *)
(*   - the construction and the use of the Database handle.                *)
(* A step of a task runs from one suspension point (an await that really   *)
(* yields to the event loop) to the next one.                              *)
(***************************************************************************)
EXTENDS Integers, Sequences, FiniteSets, TLC

(***************************************************************************)
(* Part 1: singletons                                                      *)
(***************************************************************************)

\* `_instance: Database | None = None`; instances are numbered from 1
None == 0

\* bounds of the singleton model
MaxCalls == 3
\* reset_instance() calls and factory failures in one run, together
MaxUpsets == 1

\* the asyncio tasks; they run the same code, so task t makes its first call
\* only after task t - 1 has made one (the runs left out are renamings)
Tasks == {1, 2, 3}

Singletons == {"DatabaseFactory", "PhalaFactory", "SecretsFactory", "PhalaService"}

OneLockForAll(k) == "AsyncSingleton"

\* every factory class has its own asyncio.Lock; the subclasses of
\* AsyncSingleton share AsyncSingleton._lock
LockOf(k) == IF k = "PhalaService" THEN "AsyncSingleton" ELSE k

Locks == {LockOf(k) : k \in Singletons}

\* Database.create and PhalaModel.create first await SecretsFactory.get_instance()
Dep(k) == IF k \in {"DatabaseFactory", "PhalaFactory"} THEN "SecretsFactory" ELSE "none"

VARIABLES
    instance,       \* [Singletons -> Nat]  cls._instance / AsyncSingleton._instances[cls]
    locked,         \* [Locks -> BOOLEAN]   asyncio.Lock._locked
    waiters,        \* [Locks -> Seq(Tasks)] asyncio.Lock._waiters (FIFO)
    pc,             \* [Tasks -> {"idle","waiting","constructing","done","raised"}]
    stack,          \* [Tasks -> Seq(Singletons)] get_instance frames, outermost first
    result,         \* [Tasks -> Nat] value returned by the task's last get_instance()
    manager,        \* [Tasks -> Nat] `secrets_manager` in the create() the task runs
    nextId,         \* identity of the next constructed object
    \* ---- history of the run (read by the properties only) ----
    target,         \* [Tasks -> Singletons] singleton of the task's current call
    calls,          \* get_instance() calls made by the tasks
    upsets,         \* reset_instance() calls and factory failures so far
    factoryCalls,   \* [Singletons -> Nat] factory invocations
    completed,      \* [Singletons -> Nat] factory invocations that ended
    resets,         \* [Singletons -> Nat] reset_instance() calls
    fails,          \* [Singletons -> Nat] factory invocations that raised
    returned,       \* [Singletons -> SUBSET Nat] instances handed to callers
    beforeReset,    \* [Singletons -> SUBSET Nat] instances handed out before the last reset
    pendingReset,   \* [Singletons -> BOOLEAN] reset, and no get_instance() call since
    okSinceReset,   \* [Singletons -> BOOLEAN] a construction succeeded since the last reset
    failedLast,     \* [Singletons -> BOOLEAN] last factory raised, none invoked since
    waited,         \* [Tasks -> BOOLEAN] the call blocked on the lock
    built,          \* [Tasks -> BOOLEAN] the call invoked the factory
    first,          \* [Tasks -> BOOLEAN] the call is the first one after a reset
    seen,           \* [Tasks -> SUBSET Nat] beforeReset at the start of a first call
    resetSince,     \* [Tasks -> BOOLEAN] reset of the target since the call began
    arrivedDuring,  \* [Tasks -> Nat] factory invocation in flight when the call blocked
    expect,         \* [Tasks -> Nat] instance produced by that invocation
    \* ---- part 2: the store and the session scopes ----
    committed,      \* Seq(write): what the store holds durably, in commit order
    sess,           \* [Clients -> record] the AsyncSession of the client's open scope
    scope,          \* [ScopeIds -> record] what happened in each scope (history)
    dpc,            \* [Clients -> position of the client in its operation]
    nextSid,        \* number of the next scope
    nstmts,         \* statements executed so far
    nfaults         \* errors and cancellations so far

svars == <<instance, locked, waiters, pc, stack, result, manager, nextId, target, calls, upsets,
           factoryCalls, completed, resets, fails, returned, beforeReset,
           pendingReset, okSinceReset, failedLast, waited, built, first, seen,
           resetSince, arrivedDuring, expect>>

\* the variables of part 2 (declared there)
dvars == <<committed, sess, scope, dpc, nextSid, nstmts, nfaults>>

VARIABLES
    \* ---- part 3: the text of a query on its way to the server ----
    qtext,          \* the query as its author wrote it (sequence of symbols)
    qparams,        \* the `params` argument
    qrows,          \* the rows the server yields for the statement
    qpc,            \* "off", "input" (call not made yet), "done"
    qrunner,        \* the runner that was called
    qin,            \* the `query` argument of the call
    qsent,          \* the text handed to session.execute(text(...), ...)
    qsentParams,    \* the mapping handed to session.execute
    qret            \* what run_query returned

tvars == <<qtext, qparams, qrows, qpc, qrunner, qin, qsent, qsentParams, qret>>

VARIABLES
    \* ---- part 4: a query relayed to the completion API ----
    rlen,           \* len(message.query)
    reply,          \* what the completion API answers to a POST
    rpc,            \* "off", "input", "posting", "done"
    rentry,         \* the call followed: "query" or "get_completions"
    robtained,      \* the objects the call obtained on its way
    rposts,         \* POST requests made
    rout            \* how the call ended

rvars == <<rlen, reply, rpc, rentry, robtained, rposts, rout>>

VARIABLES
    \* ---- part 5: the Database handle, its construction and its use ----
    vault,          \* labels of the vault item's fields that have a value
    deployment,     \* secrets_manager.deployment
    hpc,            \* where DatabaseFactory.get_instance() stands
    hobj,           \* the Database object Database.create() works on
    hcached,        \* DatabaseFactory._instance is set (to hobj)
    fresh,          \* a Database object made by Database() alone
    herr,           \* the error DatabaseFactory.get_instance() raised
    engines,        \* create_async_engine calls
    use,            \* the last call of a runner or scope on a handle
    held,           \* the instance get_instance() handed to its first caller
    hopen,          \* sessions open on `held`
    hdisposed,      \* instances (by id) whose engine was disposed
    hresets         \* DatabaseFactory.reset_instance() calls

hvars == <<vault, deployment, hpc, hobj, hcached, fresh, herr, engines, use,
           held, hopen, hdisposed, hresets>>

VARIABLES
    \* ---- part 5, continued: what the Database logs about its connection, in
    \* two runs that are given the same inputs except for the password ----
    pwd,            \* the password the vault item holds, in run 1 and in run 2
    strurl,         \* how the installed SQLAlchemy writes a URL as text
    loglevel,       \* LOGGING_LEVEL, the level of the root logger
    hlog            \* the last MaxLog records with a URL, in run 1 and in run 2

lvars == <<pwd, strurl, loglevel, hlog>>

VARIABLES
    \* ---- part 5, continued: close() and get_instance() on a built handle ----
    hcloses,        \* Database.close() calls made on `held`
    hgot            \* what the last get_instance() that found an instance returned

cvars == <<hcloses, hgot>>

\* the variables of the parts after part 2
xvars == <<tvars, rvars, hvars, lvars, cvars>>

vars == <<svars, dvars, xvars>>

\* the state as one record, for the operators that run a task to its next await
Cur ==
    [instance |-> instance, locked |-> locked, waiters |-> waiters, pc |-> pc,
     stack |-> stack, result |-> result, manager |-> manager, nextId |-> nextId,
     factoryCalls |-> factoryCalls, completed |-> completed, fails |-> fails,
     returned |-> returned, pendingReset |-> pendingReset,
     okSinceReset |-> okSinceReset, failedLast |-> failedLast,
     waited |-> waited, built |-> built, arrivedDuring |-> arrivedDuring,
     expect |-> expect]

Apply(s) ==
    /\ instance' = s.instance
    /\ locked' = s.locked
    /\ waiters' = s.waiters
    /\ pc' = s.pc
    /\ stack' = s.stack
    /\ result' = s.result
    /\ manager' = s.manager
    /\ nextId' = s.nextId
    /\ factoryCalls' = s.factoryCalls
    /\ completed' = s.completed
    /\ fails' = s.fails
    /\ returned' = s.returned
    /\ pendingReset' = s.pendingReset
    /\ okSinceReset' = s.okSinceReset
    /\ failedLast' = s.failedLast
    /\ waited' = s.waited
    /\ built' = s.built
    /\ arrivedDuring' = s.arrivedDuring
    /\ expect' = s.expect

Top(s, t) == s.stack[t][Len(s.stack[t])]

\* `if cls._instance is None:` before the lock
FirstCheck(s, k) == s.instance[k] = None

SecondCheckSkipped(s, k) == TRUE

\* `if cls._instance is None:` under the lock
SecondCheck(s, k) == s.instance[k] = None

LockAlwaysFree(s, l) == TRUE

\* asyncio.Lock.acquire takes the lock without suspending only when it is
\* unlocked and nobody is queued
LockFree(s, l) == ~s.locked[l] /\ s.waiters[l] = <<>>

ReleaseNever(s, l) == s

\* leaving `async with cls._lock`: the head of the queue becomes runnable
Release(s, l) == [s EXCEPT !.locked[l] = FALSE]

\* `return cls._instance`: to the task, or to the factory that made the nested call
Return(s, t) ==
    LET k == Top(s, t)
        v == s.instance[k]
        n == Len(s.stack[t])
    IN  IF n = 1
        THEN [s EXCEPT !.stack[t] = <<>>, !.pc[t] = "done", !.result[t] = v,
                       !.returned[k] = @ \cup {v}]
        ELSE [s EXCEPT !.stack[t] = SubSeq(@, 1, n - 1), !.pc[t] = "constructing",
                       !.manager[t] = v]

RECURSIVE Enter(_, _)

\* `cls._instance = await X.create()` up to the first await that suspends
StartFactory(s, t) ==
    LET k == Top(s, t)
        s1 == [s EXCEPT !.factoryCalls[k] = @ + 1, !.failedLast[k] = FALSE,
                        !.built[t] = IF Len(s.stack[t]) = 1 THEN TRUE ELSE @]
    IN  IF Dep(k) = "none"
        THEN [s1 EXCEPT !.pc[t] = "constructing"]
        ELSE Enter([s1 EXCEPT !.stack[t] = Append(@, Dep(k))], t)

\* the body of `async with cls._lock:`
AfterAcquire(s, t) ==
    LET k == Top(s, t)
    IN  IF SecondCheck(s, k)
        THEN StartFactory(s, t)
        ELSE Return(Release(s, LockOf(k)), t)

\* get_instance() from its first line to the first suspension
Enter(s, t) ==
    LET k == Top(s, t)
        l == LockOf(k)
        s0 == [s EXCEPT !.pendingReset[k] = FALSE]
    IN  IF ~FirstCheck(s0, k)
        THEN Return(s0, t)
        ELSE IF LockFree(s0, l)
        THEN AfterAcquire([s0 EXCEPT !.locked[l] = TRUE], t)
        ELSE [s0 EXCEPT !.waiters[l] = Append(@, t), !.pc[t] = "waiting",
                        !.waited[t] = IF Len(s.stack[t]) = 1 THEN TRUE ELSE @,
                        !.arrivedDuring[t] =
                            IF Len(s.stack[t]) = 1 /\ s.locked[l]
                            THEN s.factoryCalls[k] ELSE @]

\* the factory returned an object: assign, leave the lock, return
FactoryReturn(s, t) ==
    LET k == Top(s, t)
        id == s.nextId
        s1 == [s EXCEPT !.instance[k] = id, !.nextId = @ + 1,
                        !.completed[k] = @ + 1, !.okSinceReset[k] = TRUE,
                        !.expect = [w \in Tasks |->
                            IF /\ w # t
                               /\ s.pc[w] = "waiting"
                               /\ s.stack[w] = <<k>>
                               /\ s.arrivedDuring[w] = s.factoryCalls[k]
                            THEN id ELSE @[w]]]
    IN  Return(Release(s1, LockOf(k)), t)

FactoryRaiseKeepsLock(s, t) ==
    LET ks == {s.stack[t][i] : i \in 1..Len(s.stack[t])}
    IN  [s EXCEPT !.stack[t] = <<>>, !.pc[t] = "raised", !.result[t] = None,
                  !.completed = [k \in Singletons |-> IF k \in ks THEN @[k] + 1 ELSE @[k]],
                  !.fails = [k \in Singletons |-> IF k \in ks THEN @[k] + 1 ELSE @[k]],
                  !.failedLast = [k \in Singletons |-> IF k \in ks THEN TRUE ELSE @[k]]]

\* the factory raised: the error leaves every enclosing `async with` (each
\* releases its lock) and reaches the task; _instance is not assigned
FactoryRaise(s, t) ==
    LET ks == {s.stack[t][i] : i \in 1..Len(s.stack[t])}
    IN  [s EXCEPT !.stack[t] = <<>>, !.pc[t] = "raised", !.result[t] = None,
                  !.locked = [l \in Locks |->
                      IF \E k \in ks : LockOf(k) = l THEN FALSE ELSE @[l]],
                  !.completed = [k \in Singletons |-> IF k \in ks THEN @[k] + 1 ELSE @[k]],
                  !.fails = [k \in Singletons |-> IF k \in ks THEN @[k] + 1 ELSE @[k]],
                  !.failedLast = [k \in Singletons |-> IF k \in ks THEN TRUE ELSE @[k]]]

InitSingletons ==
    /\ instance = [k \in Singletons |-> None]
    /\ locked = [l \in Locks |-> FALSE]
    /\ waiters = [l \in Locks |-> <<>>]
    /\ pc = [t \in Tasks |-> "idle"]
    /\ stack = [t \in Tasks |-> <<>>]
    /\ result = [t \in Tasks |-> None]
    /\ manager = [t \in Tasks |-> None]
    /\ nextId = 1
    /\ target = [t \in Tasks |-> "SecretsFactory"]
    /\ calls = 0
    /\ upsets = 0
    /\ factoryCalls = [k \in Singletons |-> 0]
    /\ completed = [k \in Singletons |-> 0]
    /\ resets = [k \in Singletons |-> 0]
    /\ fails = [k \in Singletons |-> 0]
    /\ returned = [k \in Singletons |-> {}]
    /\ beforeReset = [k \in Singletons |-> {}]
    /\ pendingReset = [k \in Singletons |-> FALSE]
    /\ okSinceReset = [k \in Singletons |-> FALSE]
    /\ failedLast = [k \in Singletons |-> FALSE]
    /\ waited = [t \in Tasks |-> FALSE]
    /\ built = [t \in Tasks |-> FALSE]
    /\ first = [t \in Tasks |-> FALSE]
    /\ seen = [t \in Tasks |-> {}]
    /\ resetSince = [t \in Tasks |-> FALSE]
    /\ arrivedDuring = [t \in Tasks |-> 0]
    /\ expect = [t \in Tasks |-> None]

\* a task calls X.get_instance() (AsyncSingleton.get() for PhalaService)
GetInstance(t, k) ==
    /\ pc[t] \in {"idle", "done", "raised"}
    /\ calls < MaxCalls
    /\ \A u \in Tasks : u < t => pc[u] # "idle"
    /\ calls' = calls + 1
    /\ target' = [target EXCEPT ![t] = k]
    /\ first' = [first EXCEPT ![t] = pendingReset[k]]
    /\ seen' = [seen EXCEPT ![t] = IF pendingReset[k] THEN beforeReset[k] ELSE {}]
    /\ resetSince' = [resetSince EXCEPT ![t] = FALSE]
    /\ Apply(Enter([Cur EXCEPT !.stack[t] = <<k>>, !.result[t] = None,
                               !.manager[t] = None,
                               !.waited[t] = FALSE, !.built[t] = FALSE,
                               !.arrivedDuring[t] = 0, !.expect[t] = None], t))
    /\ UNCHANGED <<upsets, resets, beforeReset, dvars, xvars>>

\* a queued task gets the lock: `await fut` returns in asyncio.Lock.acquire
Resume(t) ==
    /\ pc[t] = "waiting"
    /\ LET l == LockOf(Top(Cur, t))
       IN  /\ ~locked[l]
           /\ waiters[l] # <<>>
           /\ Head(waiters[l]) = t
           /\ Apply(AfterAcquire([Cur EXCEPT !.waiters[l] = Tail(@),
                                             !.locked[l] = TRUE], t))
    /\ UNCHANGED <<target, calls, upsets, resets, beforeReset, first, seen, resetSince, dvars, xvars>>

\* the awaited I/O of the factory completes and the factory returns
FactorySucceeds(t) ==
    /\ pc[t] = "constructing"
    /\ Apply(FactoryReturn(Cur, t))
    /\ UNCHANGED <<target, calls, upsets, resets, beforeReset, first, seen, resetSince, dvars, xvars>>

\* the awaited I/O of the factory fails, or one of its assertions does
FactoryFails(t) ==
    /\ pc[t] = "constructing"
    /\ upsets < MaxUpsets
    /\ upsets' = upsets + 1
    /\ Apply(FactoryRaise(Cur, t))
    /\ UNCHANGED <<target, calls, resets, beforeReset, first, seen, resetSince, dvars, xvars>>

\* X.reset_instance() / AsyncSingleton.reset(): synchronous, from any task
ResetInstance(k) ==
    /\ upsets < MaxUpsets
    /\ upsets' = upsets + 1
    /\ instance' = [instance EXCEPT ![k] = None]
    /\ resets' = [resets EXCEPT ![k] = @ + 1]
    /\ beforeReset' = [beforeReset EXCEPT ![k] = returned[k]]
    /\ pendingReset' = [pendingReset EXCEPT ![k] = TRUE]
    /\ okSinceReset' = [okSinceReset EXCEPT ![k] = FALSE]
    /\ resetSince' = [t \in Tasks |->
           IF pc[t] \in {"waiting", "constructing"} /\ target[t] = k
           THEN TRUE ELSE resetSince[t]]
    /\ UNCHANGED <<locked, waiters, pc, stack, result, manager, nextId, target, calls,
                   factoryCalls, completed, fails, returned, failedLast, waited,
                   built, first, seen, arrivedDuring, expect, dvars, xvars>>

(***************************************************************************)
(* Part 2: the store, the session scopes and the query runners             *)
(* (Database.session, Database.no_auto_commit_session, Database.run_query, *)
(* Database.run_insert_query_with_id, Database.execute_in_transaction).    *)
(* The Database handle is the one                                          *)
(* Database.create() returned: engine and session factory are set.         *)
(* A write is <<scope, index>>; sessions run in their own transactions:    *)
(* a session's statements are staged in `pending` until it commits.        *)
(***************************************************************************)

\* bounds of the session model
\* statements executed in one run, over all scopes
MaxStmts == 3
\* errors and cancellations in one run, over all scopes
MaxFaults == 2

\* the clients run the same code, so client c opens its first scope only
\* after client c - 1 has opened one (the runs left out are renamings)
Clients == {1, 2}

Ops == {"session", "no_auto_commit_session", "run_query", "run_insert_query_with_id",
        "execute_in_transaction"}

\* the three query runners
Runners == {"run_query", "run_insert_query_with_id", "execute_in_transaction"}

\* `drivername="postgresql+asyncpg"`: the server the engine talks to
Dialect == "postgresql"

\* LAST_INSERT_ID() is built into MySQL and MariaDB.  PostgreSQL has no
\* function of that name (its counterpart is lastval()): there the call raises
\* unless the database itself defines one
BuiltInLastInsertId(d) == d \in {"mysql", "mariadb"}

\* what the server may answer to `SELECT LAST_INSERT_ID() as id`
LookupAnswers(d) ==
    IF BuiltInLastInsertId(d) THEN {"id", "error"} ELSE {"id", "undefined", "error"}

\* the scopes of a run, numbered in the order they are opened
ScopeIds == {1, 2}

Range(q) == {q[i] : i \in 1..Len(q)}

NoSession ==
    [sid |-> 0, op |-> "none", open |-> FALSE, pending |-> <<>>, active |-> FALSE,
     err |-> "none", i |-> 0, qlen |-> 0, seen |-> {}, nreads |-> 0, prior |-> {},
     lastId |-> 0]

NoScope ==
    [kind |-> "none", qlen |-> 0, outcome |-> "unused", orig |-> "none",
     raised |-> "none", nwrites |-> 0, explicit |-> FALSE, upTo |-> 0, commits |-> 0,
     rollbacks |-> 0, rbFailed |-> FALSE, closed |-> FALSE, late |-> FALSE,
     lookups |-> 0, undef |-> FALSE, ret |-> 0, flag |-> "none", got |-> "none"]

InitDb ==
    /\ committed = <<>>
    /\ sess = [c \in Clients |-> NoSession]
    /\ scope = [n \in ScopeIds |-> NoScope]
    /\ dpc = [c \in Clients |-> "idle"]
    /\ nextSid = 1
    /\ nstmts = 0
    /\ nfaults = 0

ExecuteWriteAutocommit(db, w) == [db EXCEPT !.committed = Append(@, w)]

\* `await session.execute(...)` of a writing statement that succeeds: the
\* effect is staged in the session's transaction
ExecuteWrite(db, w) == [db EXCEPT !.pending = Append(@, w)]

\* `await session.commit()` that succeeds: the staged effects become durable,
\* all at once and in order
CommitEffect(db) == [committed |-> db.committed \o db.pending, pending |-> <<>>]

\* `await session.rollback()` that succeeds
RollbackEffect(db) == [db EXCEPT !.pending = <<>>]

ExitNeverCommits(op) == FALSE

ExitAlwaysCommits(op) == TRUE

\* Database.session commits after the body (`await session.commit()` after
\* the yield); Database.no_auto_commit_session has no such line.  run_query
\* and execute_in_transaction run inside Database.session
ExitCommits(op) == op # "no_auto_commit_session"

Swallow(e) == "none"

\* the bare `raise` that ends the except block
Reraise(e) == e

CloseSessionSkipped(s) == s

\* leaving `async with self.async_session() as session`: AsyncSession.close()
\* releases the connection; what was not committed is gone
CloseSession(s) == [s EXCEPT !.open = FALSE, !.pending = <<>>, !.active = FALSE]

\* where the operation stands once a statement has been executed
AfterStatement(s) ==
    IF s.op = "run_query" THEN "autocommit"
    ELSE IF s.op = "run_insert_query_with_id" THEN "lookup"
    ELSE IF s.op = "execute_in_transaction" /\ s.i = s.qlen THEN "txncommit"
    ELSE "body"

\* statements the body may still execute
MayExecute(s) ==
    CASE s.op \in {"run_query", "run_insert_query_with_id"} -> s.i = 0
      [] s.op = "execute_in_transaction" -> s.i < s.qlen
      [] OTHER -> TRUE

Db(c) == [committed |-> committed, pending |-> sess[c].pending]

\* the first error of the scope is the original one
Fail(sc, e) == [sc EXCEPT !.orig = IF @ = "none" THEN e ELSE @]

\* a statement is sent on the session of the scope: it is late when a commit
\* or a rollback was issued on that session before
Stmt(sc) == [sc EXCEPT !.late = @ \/ (sc.commits + sc.rollbacks > 0)]

\* execute_in_transaction: `return True` once the loop has gone through the
\* whole list; the value waits while the two `async with` blocks are left
ReturnTrue(sc, s) ==
    IF s.op = "execute_in_transaction" /\ s.i = s.qlen
    THEN [sc EXCEPT !.flag = "True"] ELSE sc

DeliveredAnyway(e, v) == v

\* what the caller of execute_in_transaction gets: the value of the return
\* statement, unless an error left one of the `async with` blocks after it
Delivered(e, v) == IF e = "none" THEN v ELSE "none"

\* a client enters session() / no_auto_commit_session(), or calls run_query /
\* execute_in_transaction with a list of n statements.  session.begin() opens
\* the transaction without touching the server: the connection is taken by
\* the first statement
Begin(c, op, n) ==
    /\ dpc[c] = "idle"
    /\ nextSid \in ScopeIds
    /\ c <= nextSid
    /\ (op = "execute_in_transaction") \/ (n = 0)
    /\ LET s == [NoSession EXCEPT !.sid = nextSid, !.op = op, !.open = TRUE,
                                  !.qlen = n,
                                  !.prior = {m \in ScopeIds :
                                      scope[m].outcome \in {"ok", "error", "cancelled"}},
                                  !.active = FALSE]
       IN  /\ sess' = [sess EXCEPT ![c] = s]
           /\ dpc' = [dpc EXCEPT ![c] =
                  IF op = "execute_in_transaction" /\ n = 0 THEN "txncommit" ELSE "body"]
           /\ scope' = [scope EXCEPT ![nextSid] =
                  ReturnTrue([NoScope EXCEPT !.kind = op, !.qlen = n,
                                             !.outcome = "running"], s)]
    /\ nextSid' = nextSid + 1
    /\ UNCHANGED <<committed, nstmts, nfaults, svars, xvars>>

\* a writing statement is executed
ExecWrite(c) ==
    /\ dpc[c] = "body"
    /\ MayExecute(sess[c])
    /\ LET sid == sess[c].sid
           db == ExecuteWrite(Db(c), <<sid, scope[sid].nwrites + 1>>)
           s == [sess[c] EXCEPT !.pending = db.pending, !.i = @ + 1, !.active = TRUE,
                                !.lastId = sid]
       IN  /\ committed' = db.committed
           /\ sess' = [sess EXCEPT ![c] = s]
           /\ scope' = [scope EXCEPT ![sid] =
                  ReturnTrue(Stmt([@ EXCEPT !.nwrites = @ + 1]), s)]
           /\ dpc' = [dpc EXCEPT ![c] = AfterStatement(s)]
    /\ nstmts < MaxStmts
    /\ nstmts' = nstmts + 1
    /\ UNCHANGED <<nextSid, nfaults, svars, xvars>>

\* a reading statement is executed: it sees what is committed and what its
\* own session has staged
ExecRead(c) ==
    /\ dpc[c] = "body"
    /\ sess[c].op \notin {"execute_in_transaction", "run_insert_query_with_id"}
    /\ MayExecute(sess[c])
    /\ LET s == [sess[c] EXCEPT !.i = @ + 1, !.active = TRUE, !.nreads = @ + 1,
                                !.seen = Range(committed) \cup Range(sess[c].pending)]
       IN  /\ sess' = [sess EXCEPT ![c] = s]
           /\ dpc' = [dpc EXCEPT ![c] = AfterStatement(s)]
    /\ nstmts < MaxStmts
    /\ nstmts' = nstmts + 1
    /\ scope' = [scope EXCEPT ![sess[c].sid] = Stmt(@)]
    /\ UNCHANGED <<committed, nextSid, nfaults, svars, xvars>>

\* a statement raises (syntax, constraint, lost connection)
ExecFail(c) ==
    /\ dpc[c] = "body"
    /\ MayExecute(sess[c])
    /\ sess' = [sess EXCEPT ![c].err = "stmt", ![c].active = TRUE]
    /\ scope' = [scope EXCEPT ![sess[c].sid] = Fail(Stmt(@), "stmt")]
    /\ dpc' = [dpc EXCEPT ![c] =
           IF sess[c].op = "execute_in_transaction" THEN "txnrollback" ELSE "handler"]
    /\ nstmts < MaxStmts
    /\ nstmts' = nstmts + 1
    /\ nfaults < MaxFaults
    /\ nfaults' = nfaults + 1
    /\ UNCHANGED <<committed, nextSid, svars, xvars>>

\* run_insert_query_with_id: `SELECT LAST_INSERT_ID() as id` on the same
\* session, right after the insert.  The server answers with the identifier
\* generated last on this connection ("id"), raises because it has no such
\* function ("undefined"), or fails for a reason of its own ("error")
LastInsertId(c, answer) ==
    /\ dpc[c] = "lookup"
    /\ answer \in LookupAnswers(Dialect)
    /\ LET sid == sess[c].sid
       IN  IF answer = "id"
           THEN /\ sess' = [sess EXCEPT ![c].i = @ + 1]
                /\ scope' = [scope EXCEPT ![sid] =
                       Stmt([@ EXCEPT !.lookups = @ + 1, !.ret = sess[c].lastId])]
                /\ dpc' = [dpc EXCEPT ![c] = "inscommit"]
           ELSE /\ sess' = [sess EXCEPT ![c].err = "stmt"]
                /\ scope' = [scope EXCEPT ![sid] =
                       Fail(Stmt([@ EXCEPT !.lookups = @ + 1,
                                           !.undef = (answer = "undefined")]), "stmt")]
                /\ dpc' = [dpc EXCEPT ![c] = "handler"]
    /\ answer = "error" => nfaults < MaxFaults
    /\ nfaults' = IF answer = "error" THEN nfaults + 1 ELSE nfaults
    /\ nstmts < MaxStmts
    /\ nstmts' = nstmts + 1
    /\ UNCHANGED <<committed, nextSid, svars, xvars>>

\* run_insert_query_with_id: `await session.commit()` before the return; the
\* return then leaves Database.session, which commits again
InsertCommit(c, ok) ==
    /\ dpc[c] = "inscommit"
    /\ LET sid == sess[c].sid
           db == CommitEffect(Db(c))
       IN  IF ok
           THEN /\ committed' = db.committed
                /\ sess' = [sess EXCEPT ![c].pending = db.pending, ![c].active = FALSE]
                /\ scope' = [scope EXCEPT ![sid].commits = @ + 1, ![sid].explicit = TRUE,
                                          ![sid].upTo = scope[sid].nwrites]
                /\ dpc' = [dpc EXCEPT ![c] = "autocommit"]
           ELSE /\ committed' = committed
                /\ sess' = [sess EXCEPT ![c].err = "commit"]
                /\ scope' = [scope EXCEPT ![sid] = Fail([@ EXCEPT !.commits = @ + 1], "commit")]
                /\ dpc' = [dpc EXCEPT ![c] = "handler"]
    /\ ~ok => nfaults < MaxFaults
    /\ nfaults' = IF ok THEN nfaults ELSE nfaults + 1
    /\ UNCHANGED <<nextSid, nstmts, svars, xvars>>

\* the body of a scope calls session.commit() itself
BodyCommit(c, ok) ==
    /\ dpc[c] = "body"
    /\ sess[c].op \in {"session", "no_auto_commit_session"}
    /\ sess[c].active
    /\ LET sid == sess[c].sid
           db == CommitEffect(Db(c))
       IN  IF ok
           THEN /\ committed' = db.committed
                /\ sess' = [sess EXCEPT ![c].pending = db.pending, ![c].active = FALSE]
                /\ scope' = [scope EXCEPT ![sid].commits = @ + 1, ![sid].explicit = TRUE,
                                          ![sid].upTo = scope[sid].nwrites]
                /\ dpc' = dpc
           ELSE /\ committed' = committed
                /\ sess' = [sess EXCEPT ![c].err = "commit"]
                /\ scope' = [scope EXCEPT ![sid] = Fail([@ EXCEPT !.commits = @ + 1], "commit")]
                /\ dpc' = [dpc EXCEPT ![c] = "handler"]
    /\ ~ok => nfaults < MaxFaults
    /\ nfaults' = IF ok THEN nfaults ELSE nfaults + 1
    /\ UNCHANGED <<nextSid, nstmts, svars, xvars>>

\* the body of a scope raises an error of its own
BodyRaise(c) ==
    /\ dpc[c] = "body"
    /\ sess[c].op \in {"session", "no_auto_commit_session"}
    /\ sess' = [sess EXCEPT ![c].err = "body"]
    /\ scope' = [scope EXCEPT ![sess[c].sid] = Fail(@, "body")]
    /\ dpc' = [dpc EXCEPT ![c] = "handler"]
    /\ nfaults < MaxFaults
    /\ nfaults' = nfaults + 1
    /\ UNCHANGED <<committed, nextSid, nstmts, svars, xvars>>

\* the body of a scope ends normally
BodyEnd(c) ==
    /\ dpc[c] = "body"
    /\ sess[c].op \in {"session", "no_auto_commit_session"}
    /\ dpc' = [dpc EXCEPT ![c] = IF ExitCommits(sess[c].op) THEN "autocommit" ELSE "closing"]
    /\ UNCHANGED <<committed, sess, scope, nextSid, nstmts, nfaults, svars, xvars>>

\* execute_in_transaction: `return True` leaves `async with session.begin()`,
\* which commits the transaction; with no statement sent there is nothing to
\* commit on the server and the commit cannot fail
TxnCommit(c, ok) ==
    /\ dpc[c] = "txncommit"
    /\ ok \/ sess[c].active
    /\ LET sid == sess[c].sid
           db == CommitEffect(Db(c))
       IN  IF ok
           THEN /\ committed' = db.committed
                /\ sess' = [sess EXCEPT ![c].pending = db.pending, ![c].active = FALSE]
                /\ scope' = [scope EXCEPT ![sid].commits = @ + 1]
                /\ dpc' = [dpc EXCEPT ![c] = "autocommit"]
           ELSE /\ committed' = committed
                /\ sess' = [sess EXCEPT ![c].err = "commit"]
                /\ scope' = [scope EXCEPT ![sid] = Fail([@ EXCEPT !.commits = @ + 1], "commit")]
                /\ dpc' = [dpc EXCEPT ![c] = "handler"]
    /\ ~ok => nfaults < MaxFaults
    /\ nfaults' = IF ok THEN nfaults ELSE nfaults + 1
    /\ UNCHANGED <<nextSid, nstmts, svars, xvars>>

\* execute_in_transaction: `except Exception as e: await session.rollback();
\* raise e`; the error then reaches the except block of Database.session
TxnRollback(c, ok) ==
    /\ dpc[c] = "txnrollback"
    /\ LET sid == sess[c].sid
           db == RollbackEffect(Db(c))
       IN  IF ok
           THEN /\ sess' = [sess EXCEPT ![c].pending = db.pending, ![c].active = FALSE]
                /\ scope' = [scope EXCEPT ![sid].rollbacks = @ + 1]
           ELSE /\ sess' = [sess EXCEPT ![c].err = "rollback"]
                /\ scope' = [scope EXCEPT ![sid].rollbacks = @ + 1, ![sid].rbFailed = TRUE]
    /\ dpc' = [dpc EXCEPT ![c] = "handler"]
    /\ ~ok => nfaults < MaxFaults
    /\ nfaults' = IF ok THEN nfaults ELSE nfaults + 1
    /\ UNCHANGED <<committed, nextSid, nstmts, svars, xvars>>

\* Database.session: `await session.commit()` after the body; with no
\* transaction in progress it has nothing to send and cannot fail
AutoCommit(c, ok) ==
    /\ dpc[c] = "autocommit"
    /\ ok \/ sess[c].active
    /\ LET sid == sess[c].sid
           db == CommitEffect(Db(c))
       IN  IF ok
           THEN /\ committed' = db.committed
                /\ sess' = [sess EXCEPT ![c].pending = db.pending, ![c].active = FALSE]
                /\ scope' = [scope EXCEPT ![sid].commits = @ + 1]
                /\ dpc' = [dpc EXCEPT ![c] = "closing"]
           ELSE /\ committed' = committed
                /\ sess' = [sess EXCEPT ![c].err = "commit"]
                /\ scope' = [scope EXCEPT ![sid] = Fail([@ EXCEPT !.commits = @ + 1], "commit")]
                /\ dpc' = [dpc EXCEPT ![c] = "handler"]
    /\ ~ok => nfaults < MaxFaults
    /\ nfaults' = IF ok THEN nfaults ELSE nfaults + 1
    /\ UNCHANGED <<nextSid, nstmts, svars, xvars>>

\* `except Exception as e:` of both scopes: log, `await session.rollback()`,
\* `raise`.  When the rollback raises, its error replaces the one in flight
Handler(c, ok) ==
    /\ dpc[c] = "handler"
    /\ ok \/ sess[c].active
    /\ LET sid == sess[c].sid
           db == RollbackEffect(Db(c))
       IN  IF ok
           THEN /\ sess' = [sess EXCEPT ![c].pending = db.pending, ![c].active = FALSE,
                                        ![c].err = Reraise(@)]
                /\ scope' = [scope EXCEPT ![sid].rollbacks = @ + 1]
           ELSE /\ sess' = [sess EXCEPT ![c].err = "rollback"]
                /\ scope' = [scope EXCEPT ![sid].rollbacks = @ + 1, ![sid].rbFailed = TRUE]
    /\ dpc' = [dpc EXCEPT ![c] = "closing"]
    /\ ~ok => nfaults < MaxFaults
    /\ nfaults' = IF ok THEN nfaults ELSE nfaults + 1
    /\ UNCHANGED <<committed, nextSid, nstmts, svars, xvars>>

\* the client's task is cancelled while it is suspended in the scope:
\* CancelledError is no Exception, so no except block runs; a commit that was
\* in flight may or may not have reached the store
Cancel(c, applied) ==
    /\ dpc[c] \in {"body", "lookup", "inscommit", "txncommit", "txnrollback",
                  "autocommit", "handler"}
    /\ applied => (dpc[c] \in {"inscommit", "txncommit", "autocommit"} /\ sess[c].active)
    /\ LET db == CommitEffect(Db(c))
       IN  IF applied
           THEN /\ committed' = db.committed
                /\ sess' = [sess EXCEPT ![c].pending = db.pending, ![c].active = FALSE,
                                        ![c].err = "cancel"]
           ELSE /\ committed' = committed
                /\ sess' = [sess EXCEPT ![c].err = "cancel"]
    /\ dpc' = [dpc EXCEPT ![c] = "closing"]
    /\ nfaults < MaxFaults
    /\ nfaults' = nfaults + 1
    /\ UNCHANGED <<scope, nextSid, nstmts, svars, xvars>>

\* the scope is left: the session is closed and the caller gets the value
\* or the error
Close(c) ==
    /\ dpc[c] = "closing"
    /\ LET sid == sess[c].sid
           s == CloseSession(sess[c])
       IN  /\ sess' = [sess EXCEPT ![c] = IF s.open THEN s ELSE NoSession]
           /\ scope' = [scope EXCEPT ![sid].closed = ~s.open,
                                     ![sid].raised = s.err,
                                     ![sid].got = Delivered(s.err, scope[sid].flag),
                                     ![sid].outcome =
                                         IF s.err = "none" THEN "ok"
                                         ELSE IF s.err = "cancel" THEN "cancelled"
                                         ELSE "error"]
    /\ dpc' = [dpc EXCEPT ![c] = "idle"]
    /\ UNCHANGED <<committed, nextSid, nstmts, nfaults, svars, xvars>>

(***************************************************************************)
(* Part 3: the text of a query (placeholder translation, trimming,         *)
(* classification of run_query).  A text is a sequence of symbols: single  *)
(* characters, and the SQL keywords, each taken as one run of word         *)
(* characters.                                                             *)
(***************************************************************************)

\* bounds of the text model
\* symbols of a query that carries placeholders
MaxText == 5
\* symbols of a query that begins with keywords and blanks
MaxHead == 3

\* the characters that matter to the pattern %\((\w+)\)s and to `:name`
TokenSyms == {"%", "(", ")", "s", "a", ":"}

\* the keywords run_query looks for, a keyword in lower case, a statement
\* that returns no rows, and the blank
HeadSyms == {"SELECT", "WITH", "RETURNING", "with", "UPDATE", " "}

\* \w: everything here but the punctuation and the blank
IsWord(c) == c \notin {"%", "(", ")", ":", " "}

Texts(S, n) == UNION {[1..k -> S] : k \in 0..n}

\* result.keys() and the row sets the server may yield
Columns == <<"id", "name">>

RowSets == {<<>>, << <<1, 2>> >>, << <<1, 2>>, <<3, 4>> >>, << <<3, 4>>, <<1, 2>> >>}

\* the `params` arguments: None, or a mapping
ParamSets == {None, 1}

\* index of the first symbol at or after i that is not a word character
RECURSIVE WordEnd(_, _)
WordEnd(q, i) == IF i > Len(q) \/ ~IsWord(q[i]) THEN i ELSE WordEnd(q, i + 1)

\* the pattern %\((\w+)\)s matched at position i: index of its last symbol,
\* 0 when it does not match there (\w+ is greedy and `)` is no word character)
MatchEnd(q, i) ==
    IF i + 1 <= Len(q) /\ q[i] = "%" /\ q[i + 1] = "("
    THEN LET j == WordEnd(q, i + 2)
         IN  IF j > i + 2 /\ j + 1 <= Len(q) /\ q[j] = ")" /\ q[j + 1] = "s"
             THEN j + 1 ELSE 0
    ELSE 0

\* re.sub scans from the left and replaces every non-overlapping match
RECURSIVE Sub(_, _)
Sub(q, i) ==
    IF i > Len(q) THEN <<>>
    ELSE LET e == MatchEnd(q, i)
         IN  IF e > 0 THEN <<":">> \o SubSeq(q, i + 2, e - 2) \o Sub(q, e + 1)
             ELSE <<q[i]>> \o Sub(q, i + 1)

NoTranslate(q) == q

\* re.sub(r"%\((\w+)\)s", r":\1", query)
Translate(q) == Sub(q, 1)

RECURSIVE LStrip(_)
LStrip(q) == IF q # <<>> /\ Head(q) = " " THEN LStrip(Tail(q)) ELSE q

RECURSIVE RStrip(_)
RStrip(q) == IF q # <<>> /\ q[Len(q)] = " " THEN RStrip(SubSeq(q, 1, Len(q) - 1)) ELSE q

\* query.strip()
Strip(q) == RStrip(LStrip(q))

\* query.startswith(("SELECT", "WITH", "RETURNING")): exact case, at the
\* very start of the text
StartsWithKeyword(q) == q # <<>> /\ Head(q) \in {"SELECT", "WITH", "RETURNING"}

\* dict(zip(result.keys(), row)) for every row, in result order; a dict keeps
\* the order of its keys
RowsToDicts(keys, rows) ==
    [i \in 1..Len(rows) |-> [j \in 1..Len(keys) |-> <<keys[j], rows[i][j]>>]]

\* the statement a runner hands to session.execute: all three translate the
\* placeholders, run_query trims the result
Submitted(r, q) == IF r = "run_query" THEN Strip(Translate(q)) ELSE Translate(q)

\* the else branch of run_query: `return []`
ReturnsEmptyList(rows) == <<>>

\* what run_query returns for the statement it submitted
RunQueryResult(stmt, rows) ==
    IF StartsWithKeyword(stmt) THEN RowsToDicts(Columns, rows) ELSE ReturnsEmptyList(rows)

\* a query in the engine's native syntax written with the %(name)s tokens
\* instead: every `:name` becomes %(name)s
RECURSIVE ToPyformat(_, _)
ToPyformat(q, i) ==
    IF i > Len(q) THEN <<>>
    ELSE LET j == WordEnd(q, i + 1)
         IN  IF q[i] = ":" /\ j > i + 1
             THEN <<"%", "(">> \o SubSeq(q, i + 1, j - 1) \o <<")", "s">> \o ToPyformat(q, j)
             ELSE <<q[i]>> \o ToPyformat(q, i + 1)

\* no runner is being followed
NoText ==
    /\ qtext = <<>> /\ qparams = None /\ qrows = <<>> /\ qpc = "off"
    /\ qrunner = "none" /\ qin = <<>> /\ qsent = <<>> /\ qsentParams = None
    /\ qret = None

\* the query, its parameters and the rows in the store are the inputs
InitText ==
    /\ \/ qtext \in Texts(TokenSyms, MaxText) /\ qrows = <<>>
       \/ qtext \in Texts(HeadSyms, MaxHead) /\ qrows \in RowSets
    /\ qparams \in ParamSets
    /\ qpc = "input"
    /\ qrunner = "none" /\ qin = <<>> /\ qsent = <<>> /\ qsentParams = None
    /\ qret = None

\* runner r is called with the query, written natively or with %(name)s
\* tokens, and gets as far as session.execute
Submit(r, form) ==
    /\ qpc = "input"
    /\ LET q == IF form = "pyformat" THEN ToPyformat(qtext, 1) ELSE qtext
           stmt == Submitted(r, q)
       IN  /\ qin' = q
           /\ qsent' = stmt
           /\ qret' = IF r = "run_query" THEN RunQueryResult(stmt, qrows) ELSE None
    /\ qsentParams' = qparams
    /\ qrunner' = r
    /\ qpc' = "done"
    /\ UNCHANGED <<qtext, qparams, qrows, svars, dvars, rvars, hvars, lvars, cvars>>

(***************************************************************************)
(* Part 4: the relay of a query to the completion API                      *)
(* (QueryService.query, PhalaService.get_completions,                      *)
(* PhalaModel.get_completions, AsyncHttpClient.request).  Python runs the  *)
(* assert statements (the interpreter is not started with -O).             *)
(***************************************************************************)

\* `len(message.query) > 0 and len(message.query) < 1000`
MinQueryLen == 0
MaxQueryLen == 1000

\* the lengths tried: around both limits
QueryLens == {0, 1, 2, MaxQueryLen - 1, MaxQueryLen, MaxQueryLen + 1}

\* the methods a class offers under the names the relay calls
ClassMethods(cls) ==
    CASE cls = "PhalaService" -> {"get", "reset", "get_instance", "get_completions"}
      [] cls = "PhalaModel" -> {"create", "get_completions"}
      [] cls = "PhalaFactory" -> {"get_instance", "reset_instance"}
      [] OTHER -> {}

\* the answers of the API: no answer at all (the connection fails), or a
\* status, a content type and a body.  The body is JSON text for an object
\* (DictBodies), for a list ("list"), or it is no JSON ("invalid")
Statuses == {200, 404, 500}

\* the objects the API may send: with choices[0].message.content
\* ("completion"); without the key `choices` ("nokey"), with `choices` null
\* ("nullchoices") or empty ("nochoices"); with a first entry that has no
\* `message` ("nomessage") or a null one ("nullmessage"); with a message that
\* has no `content` ("nocontent") or a null one ("nullcontent")
DictBodies ==
    {"completion", "nokey", "nullchoices", "nochoices", "nomessage", "nullmessage",
     "nocontent", "nullcontent"}

Replies ==
    {[conn |-> FALSE, status |-> 0, ctype |-> "none", body |-> "none"]} \cup
    [conn : {TRUE}, status : Statuses, ctype : {"json", "other"},
     body : DictBodies \cup {"list", "invalid"}]

NoOutcome == [kind |-> "none", status |-> 0, value |-> "none"]

AnyQuery(n) == TRUE

\* the second assert of QueryService.query
ValidQuery(n) == n > MinQueryLen /\ n < MaxQueryLen

\* AsyncHttpClient.request: one session.request, no look at the status.
\* response.json() raises ContentTypeError for a content type other than
\* JSON, and then the text of the body is returned; any other failure of
\* json() becomes HTTPError(status, text).  A failure of session.request
\* itself is raised outside the try block, as aiohttp raised it
Request(r) ==
    IF ~r.conn THEN [kind |-> "ClientError", status |-> 0, value |-> "none"]
    ELSE IF r.ctype # "json" THEN [kind |-> "text", status |-> 0, value |-> r.body]
    ELSE IF r.body = "invalid" THEN [kind |-> "HTTPError", status |-> r.status, value |-> r.body]
    ELSE [kind |-> IF r.body = "list" THEN "list" ELSE "dict", status |-> 0, value |-> r.body]

\* PhalaModel.get_completions: errors of request are logged and re-raised;
\* `assert isinstance(response, dict)`
ModelCompletions(r) ==
    LET x == Request(r)
    IN  IF x.kind \in {"ClientError", "HTTPError"} THEN x
        ELSE IF x.kind # "dict" THEN [kind |-> "AssertionError", status |-> 0, value |-> "none"]
        ELSE x

Raised(e) == [kind |-> e, status |-> 0, value |-> "none"]

\* `response.get("choices", [])`
Choices(b) ==
    CASE b \in {"nokey", "nochoices"} -> "empty"
      [] b = "nullchoices" -> "null"
      [] OTHER -> "entries"

\* `choices[0].get("message", {})`
Message(b) ==
    CASE b = "nomessage" -> "emptydict"
      [] b = "nullmessage" -> "null"
      [] OTHER -> "dict"

\* `response_msg.get("content", None)`; "none" stands for None
Content(b) == IF b = "completion" THEN "content" ELSE "none"

ContentUnchecked(v) == TRUE

\* `assert response_content is not None`
ContentAsserted(v) == v # "none"

\* PhalaService.get_completions from `choices = ...` on, for the dict b the
\* model returned: len(None) is a TypeError, None.get an AttributeError
Extract(b) ==
    IF Choices(b) = "null" THEN Raised("TypeError")
    ELSE IF Choices(b) = "empty" THEN Raised("AssertionError")
    ELSE IF Message(b) = "null" THEN Raised("AttributeError")
    ELSE IF ~ContentAsserted(Content(b)) THEN Raised("AssertionError")
    ELSE [kind |-> "response", status |-> 0, value |-> Content(b)]

\* PhalaService.get_completions after the model answered
ServiceCompletions(r) ==
    LET x == ModelCompletions(r)
    IN  IF x.kind # "dict" THEN x ELSE Extract(x.value)

\* no request is being followed
NoRelay ==
    /\ rlen = 0 /\ reply = [conn |-> FALSE, status |-> 0, ctype |-> "none", body |-> "none"]
    /\ rpc = "off" /\ rentry = "none" /\ robtained = {} /\ rposts = 0
    /\ rout = NoOutcome

\* the length of the query and the answer the API will give are the inputs
InitRelay ==
    /\ rlen \in QueryLens
    /\ reply \in Replies
    /\ rpc = "input" /\ rentry = "none" /\ robtained = {} /\ rposts = 0
    /\ rout = NoOutcome

\* QueryService.query, up to its first await that waits for the network:
\* the asserts, PhalaService.get_instance() (a fresh PhalaService each time),
\* then PhalaService.get_completions, which starts with
\* `await PhalaModel.get_instance()`
Query ==
    /\ rpc = "input"
    /\ rentry' = "query"
    /\ IF ~ValidQuery(rlen)
       THEN /\ rout' = [kind |-> "AssertionError", status |-> 0, value |-> "none"]
            /\ rpc' = "done"
            /\ UNCHANGED <<robtained, rposts>>
       ELSE IF "get_instance" \notin ClassMethods("PhalaModel")
       THEN /\ rout' = [kind |-> "AttributeError", status |-> 0, value |-> "none"]
            /\ rpc' = "done"
            /\ robtained' = {"PhalaService"}
            /\ UNCHANGED rposts
       ELSE /\ robtained' = {"PhalaService", "PhalaModel"}
            /\ rposts' = rposts + 1
            /\ rpc' = "posting"
            /\ UNCHANGED rout
    /\ UNCHANGED <<rlen, reply, svars, dvars, tvars, hvars, lvars, cvars>>

\* PhalaModel.get_completions called on the instance PhalaFactory hands out:
\* the POST is sent
GetCompletions ==
    /\ rpc = "input"
    /\ rentry' = "get_completions"
    /\ robtained' = {"PhalaModel"}
    /\ rposts' = rposts + 1
    /\ rpc' = "posting"
    /\ UNCHANGED <<rlen, reply, rout, svars, dvars, tvars, hvars, lvars, cvars>>

\* the API answers (or the connection fails) and the call returns or raises
Respond ==
    /\ rpc = "posting"
    /\ rout' = IF rentry = "query" THEN ServiceCompletions(reply) ELSE ModelCompletions(reply)
    /\ rpc' = "done"
    /\ UNCHANGED <<rlen, reply, rentry, robtained, rposts, svars, dvars, tvars, hvars, lvars, cvars>>

\* PhalaService.get_completions from `choices = response.get(...)` to its
\* return, applied to the dict PhalaModel.get_completions has returned
ExtractContent ==
    /\ rpc = "done" /\ rentry = "get_completions"
    /\ rout.kind = "dict"
    /\ rentry' = "extract"
    /\ rout' = Extract(rout.value)
    /\ UNCHANGED <<rlen, reply, rpc, robtained, rposts, svars, dvars, tvars, hvars, lvars, cvars>>

(***************************************************************************)
(* Part 5: the Database handle: Database.create() under                    *)
(* DatabaseFactory.get_instance(), and the runners and scopes called on a  *)
(* handle.  A field of the handle is TRUE when it is set (not None).       *)
(***************************************************************************)

\* bounds of the handle model
\* DatabaseFactory.reset_instance() calls in one run
MaxResets == 2
\* scopes a caller keeps open on its instance at a time
MaxOpen == 1
\* Database.close() calls in one run
MaxCloses == 2

\* DatabaseEnvFields, in the order __init_db reads them
Required == <<"username", "database", "password">>

\* the labels a vault item may carry
Labels == {"username", "database", "password", "hostname"}

Deployments == {"local", "production"}

\* Database.__init__: every field None
NewDatabase ==
    [user |-> FALSE, db_name |-> FALSE, password |-> FALSE, host |-> "none",
     url |-> FALSE, engine |-> FALSE, async_session |-> FALSE, id |-> 0]

NoUse ==
    [op |-> "none", on |-> "none", outcome |-> "none", executed |-> FALSE, after |-> 0,
     disposed |-> FALSE]

\* no get_instance() has returned a cached instance yet
NoInstance == [id |-> 0, disposed |-> FALSE]

GetOrNone(v, key) == "none"

\* SecretsSchema.get: `assert result is not None, f"Key {key} not found"`;
\* the value is the name of the key that is missing, "none" when it is there
Get(v, key) == IF key \in v THEN "none" ELSE key

\* the first of the three reads that fails
RECURSIVE FirstMissing(_, _)
FirstMissing(v, i) ==
    IF i > Len(Required) THEN "none"
    ELSE IF Get(v, Required[i]) # "none" THEN Get(v, Required[i])
    ELSE FirstMissing(v, i + 1)

\* __init_db after the item arrived: the three fields (each set when the
\* vault has a value for it), host and port, url and safe_url
InitDbFields(h, v, d) ==
    [h EXCEPT !.user = "username" \in v, !.db_name = "database" \in v,
              !.password = "password" \in v,
              !.host = IF d = "local" THEN "localhost" ELSE "POSTGRES_HOST",
              !.url = TRUE]

\* create_async_engine(self.url, ...) and async_sessionmaker(bind=self.engine)
CreateEngine(h) == [h EXCEPT !.engine = TRUE, !.async_session = TRUE]

\* __post_init_checks: the first field that is not set
PostInitChecks(h) ==
    IF ~h.user THEN "User is not set"
    ELSE IF ~h.db_name THEN "Database name is not set"
    ELSE IF ~h.password THEN "Password is not set"
    ELSE IF ~h.url THEN "URL is not set"
    ELSE IF ~h.engine THEN "Engine is not set"
    ELSE IF ~h.async_session THEN "Async session is not set"
    ELSE "none"

\* the asserts a call meets before it touches a session, in order:
\* run_query and run_insert_query_with_id assert both fields,
\* session and no_auto_commit_session the session factory, and
\* execute_in_transaction has none of its own but enters self.session()
Asserted(op) ==
    IF op \in {"run_query", "run_insert_query_with_id"}
    THEN <<"engine", "async_session">>
    ELSE <<"async_session">>

IsSet(h, f) == IF f = "engine" THEN h.engine ELSE h.async_session

RECURSIVE FirstUnset(_, _, _)
FirstUnset(h, fs, i) ==
    IF i > Len(fs) THEN "none"
    ELSE IF ~IsSet(h, fs[i]) THEN fs[i]
    ELSE FirstUnset(h, fs, i + 1)

ConstructsOnTheFly(h) == CreateEngine(h)

\* a failing assert changes nothing on the handle
AssertFails(h) == h

ResetDisposes(d, id) == d \cup {id}

CloseClearsEngine(h) == [h EXCEPT !.engine = FALSE]

\* close() assigns no field of the handle: self.engine stays the engine
\* object whose pool was disposed
CloseKeeps(h) == h

\* reset_instance() is `cls._instance = None` and nothing else: the object
\* that was cached is not touched, its engine is not disposed
ResetLeaves(d, id) == d

\* records with a URL that the log keeps (the newest ones)
MaxLog == 3

\* the two runs that are compared
Runs == {1, 2}

\* `"XXXXXX" if use_placeholder_password`
Placeholder == "XXXXXX"

\* the password of the vault item in run 1 and in run 2: two different
\* secrets, or a secret and a password that reads like the placeholder
PasswordPairs == {<<"pa", "pb">>, <<"pa", Placeholder>>}

\* str(URL) writes the password as it is, or as "***", depending on the
\* release of SQLAlchemy that is installed
UrlStyles == {"clear", "masked"}

\* a URL field of a Database that was not set yet (None)
NoUrl ==
    [drivername |-> "None", username |-> "None", password |-> "None",
     host |-> "None", port |-> "None", database |-> "None"]

\* `password_to_use = "XXXXXX" if use_placeholder_password else self.password`
PasswordToUse(p, use_placeholder_password) ==
    IF use_placeholder_password THEN Placeholder ELSE p

\* __build_sqlalchemy_url on a handle whose item fields are set, the
\* password of the item being p
BuildSqlalchemyUrl(h, p, use_placeholder_password) ==
    [drivername |-> "postgresql+asyncpg",
     username |-> IF h.user THEN "user" ELSE "None",
     password |-> PasswordToUse(IF h.password THEN p ELSE "None",
                                use_placeholder_password),
     host |-> h.host,
     port |-> IF h.host = "localhost" THEN "5432" ELSE "POSTGRES_PORT",
     database |-> IF h.db_name THEN "db" ELSE "None"]

\* self.url and self.safe_url: None until __init_db has assigned them
Url(h, p) == IF h.url THEN BuildSqlalchemyUrl(h, p, FALSE) ELSE NoUrl

SafeUrl(h, p) == IF h.url THEN BuildSqlalchemyUrl(h, p, TRUE) ELSE NoUrl

LogsUrl(h, p) == Url(h, p)

\* the URL argument of every logger call of Database that has one
\* (__init__, create twice, close): self.safe_url
LogsSafeUrl(h, p) == SafeUrl(h, p)

\* `%s` of a URL (or of None) in a log message
StrUrl(u, style) ==
    IF style = "masked" /\ u.password # "None" THEN [u EXCEPT !.password = "***"] ELSE u

\* the record a logger call at line `at` writes in run r
LogRecord(at, h, r) == [at |-> at, arg |-> StrUrl(LogsSafeUrl(h, pwd[r]), strurl)]

\* configure_logging: `getattr(logging, os.getenv("LOGGING_LEVEL", "DEBUG").upper())`
LogLevels == {"DEBUG", "INFO", "WARNING", "ERROR", "CRITICAL"}

\* the numeric value of a level in the logging module
Severity(l) ==
    CASE l = "DEBUG" -> 10 [] l = "INFO" -> 20 [] l = "WARNING" -> 30
      [] l = "ERROR" -> 40 [] OTHER -> 50

\* the level of the logger calls of Database that take a URL: logger.debug in
\* __init__, logger.info and logger.error in create, logger.info in close
LevelOf(at) ==
    CASE at = 53 -> "DEBUG" [] at = 74 -> "ERROR" [] OTHER -> "INFO"

\* the record passes the level of the root logger
Enabled(at) == Severity(LevelOf(at)) >= Severity(loglevel)

\* the log after one more record
Emit(log, rec) == IF Len(log) < MaxLog THEN Append(log, rec) ELSE Append(Tail(log), rec)

\* both runs log the call at line `at` on handle h
Logged(at, h) ==
    IF Enabled(at) THEN [r \in Runs |-> Emit(hlog[r], LogRecord(at, h, r))] ELSE hlog

\* nothing was logged, no password is followed
NoLog ==
    /\ pwd = <<"None", "None">> /\ strurl = "clear" /\ loglevel = "DEBUG"
    /\ hlog = [r \in Runs |-> <<>>]

\* LOGGING_LEVEL=CRITICAL: the Database has no logger call of that level
QuietLog ==
    /\ pwd = <<"pa", "pb">> /\ strurl = "clear" /\ loglevel = "CRITICAL"
    /\ hlog = [r \in Runs |-> <<>>]

\* the passwords of the two runs, the release of SQLAlchemy and the logging
\* level are inputs
InitLog ==
    /\ pwd \in PasswordPairs /\ strurl \in UrlStyles /\ loglevel \in LogLevels
    /\ hlog = [r \in Runs |-> <<>>]

\* nothing is being constructed
NoHandle ==
    /\ vault = {} /\ deployment = "local" /\ hpc = "off"
    /\ hobj = NewDatabase /\ hcached = FALSE /\ fresh = NewDatabase
    /\ herr = "none" /\ engines = 0 /\ use = NoUse
    /\ held = NewDatabase /\ hopen = 0 /\ hdisposed = {} /\ hresets = 0
    /\ hcloses = 0 /\ hgot = NoInstance

\* the vault item and the deployment are the inputs; nothing is built yet
InitHandle ==
    /\ vault \in SUBSET Labels
    /\ deployment \in Deployments
    /\ hpc = "idle"
    /\ hobj = NewDatabase /\ hcached = FALSE /\ fresh = NewDatabase
    /\ herr = "none" /\ engines = 0 /\ use = NoUse
    /\ held = NewDatabase /\ hopen = 0 /\ hdisposed = {} /\ hresets = 0
    /\ hcloses = 0 /\ hgot = NoInstance

\* DatabaseFactory.get_instance() finds no instance, takes the lock and
\* calls Database.create(), which awaits SecretsFactory.get_instance()
CreateStarts ==
    /\ hpc = "idle"
    /\ ~hcached
    /\ hpc' = "secrets"
    /\ hobj' = NewDatabase
    /\ herr' = "none"
    /\ UNCHANGED <<vault, deployment, hcached, fresh, engines, use, held, hopen,
                   hdisposed, hresets, svars, dvars, tvars, rvars, lvars, cvars>>

\* the secrets manager is there: cls(), whose __init__ logs safe_url (still
\* None), then __init_db awaits secrets_manager.get_secret_item("ATHENA_POSTGRES")
SecretsReady(ok) ==
    /\ hpc = "secrets"
    /\ IF ok THEN hpc' = "item" /\ herr' = herr /\ hlog' = Logged(53, NewDatabase)
       ELSE hpc' = "idle" /\ herr' = "secrets" /\ hlog' = hlog
    /\ UNCHANGED <<vault, deployment, hobj, hcached, fresh, engines, use, held, hopen,
                   hdisposed, hresets, svars, dvars, tvars, rvars, pwd, strurl, loglevel, cvars>>

\* the item arrives (or the lookup raises); the rest of Database.create()
\* and the assignment in get_instance() run without another suspension
ItemFetched(ok) ==
    /\ hpc = "item"
    /\ hpc' = "idle"
    /\ LET missing == FirstMissing(vault, 1)
           h1 == InitDbFields(hobj, vault, deployment)
           h2 == [CreateEngine(h1) EXCEPT !.id = engines + 1]
       IN  IF ~ok
           THEN /\ herr' = "item"
                /\ UNCHANGED <<hobj, hcached, engines, held, hlog>>
           ELSE IF missing # "none"
           THEN /\ herr' = missing
                /\ hobj' = [hobj EXCEPT
                       !.user = missing # "username",
                       !.db_name = missing \notin {"username", "database"}]
                /\ UNCHANGED <<hcached, engines, held, hlog>>
           ELSE /\ hobj' = h2
                /\ engines' = engines + 1
                /\ hlog' = Logged(72, h2)
                /\ herr' = PostInitChecks(h2)
                /\ hcached' = (PostInitChecks(h2) = "none")
                /\ held' = IF held.id = 0 /\ PostInitChecks(h2) = "none" THEN h2 ELSE held
    /\ UNCHANGED <<vault, deployment, fresh, use, hopen, hdisposed, hresets,
                   svars, dvars, tvars, rvars, pwd, strurl, loglevel, cvars>>

\* the item arrives complete, and create_async_engine (or async_sessionmaker)
\* raises: the error is logged with safe_url and raised again
EngineFails ==
    /\ hpc = "item"
    /\ FirstMissing(vault, 1) = "none"
    /\ hpc' = "idle"
    /\ hobj' = InitDbFields(hobj, vault, deployment)
    /\ herr' = "engine"
    /\ hlog' = Logged(74, hobj')
    /\ UNCHANGED <<vault, deployment, hcached, fresh, engines, use, held, hopen,
                   hdisposed, hresets, svars, dvars, tvars, rvars, pwd, strurl, loglevel, cvars>>

\* a runner or a scope is called on a Database made by Database() alone
UseFresh(op) ==
    /\ hpc # "off"
    /\ LET f == FirstUnset(fresh, Asserted(op), 1)
       IN  IF f # "none"
           THEN /\ fresh' = AssertFails(fresh)
                /\ use' = [op |-> op, on |-> "fresh", outcome |-> f, executed |-> FALSE,
                           after |-> hresets, disposed |-> FALSE]
           ELSE /\ fresh' = fresh
                /\ use' = [op |-> op, on |-> "fresh", outcome |-> "session",
                           executed |-> TRUE, after |-> hresets, disposed |-> FALSE]
    /\ UNCHANGED <<vault, deployment, hpc, hobj, hcached, herr, engines, held, hopen,
                   hdisposed, hresets, svars, dvars, tvars, rvars, lvars, cvars>>

\* a caller that was handed the instance calls a runner on it, or enters a
\* scope and stays in it
UseInstance(op) ==
    /\ held.id # 0
    /\ op \in {"session", "no_auto_commit_session"} => hopen < MaxOpen
    /\ LET f == FirstUnset(held, Asserted(op), 1)
       IN  IF f # "none"
           THEN /\ held' = AssertFails(held)
                /\ use' = [op |-> op, on |-> "instance", outcome |-> f, executed |-> FALSE,
                           after |-> hresets,
                           disposed |-> held.id \in hdisposed]
                /\ hopen' = hopen
           ELSE /\ held' = held
                /\ use' = [op |-> op, on |-> "instance", outcome |-> "session",
                           executed |-> TRUE, after |-> hresets,
                           disposed |-> held.id \in hdisposed]
                /\ hopen' = IF op \in {"session", "no_auto_commit_session"}
                            THEN hopen + 1 ELSE hopen
    /\ UNCHANGED <<vault, deployment, hpc, hobj, hcached, fresh, herr, engines,
                   hdisposed, hresets, svars, dvars, tvars, rvars, lvars, cvars>>

\* the caller leaves the scope it was in
LeaveScope ==
    /\ hopen > 0
    /\ hopen' = hopen - 1
    /\ UNCHANGED <<vault, deployment, hpc, hobj, hcached, fresh, herr, engines, use,
                   held, hdisposed, hresets, svars, dvars, tvars, rvars, lvars, cvars>>

\* Database.close() on the instance: `assert self.engine is not None`, the
\* call is logged with safe_url, then `await self.engine.dispose()`
CloseDatabase ==
    /\ held.id # 0
    /\ held.engine
    /\ hcloses < MaxCloses
    /\ hcloses' = hcloses + 1
    /\ hlog' = Logged(256, held)
    /\ hdisposed' = hdisposed \cup {held.id}
    /\ held' = CloseKeeps(held)
    /\ hobj' = IF hobj.id = held.id THEN CloseKeeps(hobj) ELSE hobj
    /\ UNCHANGED <<vault, deployment, hpc, hcached, fresh, herr, engines, use,
                   hopen, hresets, hgot, svars, dvars, tvars, rvars, pwd, strurl,
                   loglevel>>

\* DatabaseFactory.get_instance() finds `cls._instance` set and returns it
\* (the first check, no lock taken)
GetCached ==
    /\ hcached
    /\ hgot' = [id |-> hobj.id, disposed |-> hobj.id \in hdisposed]
    /\ UNCHANGED <<hvars, hcloses, svars, dvars, tvars, rvars, lvars>>

\* DatabaseFactory.reset_instance(): synchronous, at any moment
ResetDatabase ==
    /\ hpc # "off"
    /\ hresets < MaxResets
    /\ hresets' = hresets + 1
    /\ hcached' = FALSE
    /\ hdisposed' = ResetLeaves(hdisposed, hobj.id)
    /\ UNCHANGED <<vault, deployment, hpc, hobj, fresh, herr, engines, use, held, hopen,
                   svars, dvars, tvars, rvars, lvars, cvars>>

(***************************************************************************)
(* Specifications                                                          *)
(***************************************************************************)

Next ==
    \/ \E t \in Tasks, k \in Singletons : GetInstance(t, k)
    \/ \E t \in Tasks : Resume(t)
    \/ \E t \in Tasks : FactorySucceeds(t)
    \/ \E t \in Tasks : FactoryFails(t)
    \/ \E k \in Singletons : ResetInstance(k)

\* the state after import: no singleton built, no session open, the store empty
Init == InitSingletons /\ InitDb /\ NoText /\ NoRelay /\ NoHandle /\ NoLog

Spec == Init /\ [][Next]_vars

\* calls in a run of FairSpec
MaxCallsLive == 2

\* the same steps, in runs of at most MaxCallsLive calls
NextLive == Next /\ calls' <= MaxCallsLive

\* the construction is guaranteed to end (the awaited I/O completes or fails)
\* and the event loop runs every runnable task
FairSpec ==
    /\ Init
    /\ [][NextLive]_vars
    /\ \A t \in Tasks : WF_vars(Resume(t))
    /\ \A t \in Tasks : WF_vars(FactorySucceeds(t) \/ FactoryFails(t))

\* the factories whose construction is nested: Database.create and
\* PhalaModel.create call SecretsFactory.get_instance() under their own lock
Nested == {"DatabaseFactory", "PhalaFactory", "SecretsFactory"}

\* every task makes one call, its first, on one of the nested factories
NextNested ==
    \/ \E t \in Tasks, k \in Nested : pc[t] = "idle" /\ GetInstance(t, k)
    \/ \E t \in Tasks : Resume(t)
    \/ \E t \in Tasks : FactorySucceeds(t)
    \/ \E t \in Tasks : FactoryFails(t)

\* the first calls, with constructions that end and an event loop that runs
\* every runnable task
FairNested ==
    /\ Init
    /\ [][NextNested]_vars
    /\ \A t \in Tasks : WF_vars(Resume(t))
    /\ \A t \in Tasks : WF_vars(FactorySucceeds(t) \/ FactoryFails(t))

\* the steps of the clients of one constructed Database
NextDb ==
    \/ \E c \in Clients, op \in Ops, n \in 0..MaxStmts : Begin(c, op, n)
    \/ \E c \in Clients : ExecWrite(c)
    \/ \E c \in Clients : ExecRead(c)
    \/ \E c \in Clients : ExecFail(c)
    \/ \E c \in Clients, answer \in {"id", "undefined", "error"} : LastInsertId(c, answer)
    \/ \E c \in Clients, ok \in BOOLEAN : InsertCommit(c, ok)
    \/ \E c \in Clients, ok \in BOOLEAN : BodyCommit(c, ok)
    \/ \E c \in Clients : BodyRaise(c)
    \/ \E c \in Clients : BodyEnd(c)
    \/ \E c \in Clients, ok \in BOOLEAN : TxnCommit(c, ok)
    \/ \E c \in Clients, ok \in BOOLEAN : TxnRollback(c, ok)
    \/ \E c \in Clients, ok \in BOOLEAN : AutoCommit(c, ok)
    \/ \E c \in Clients, ok \in BOOLEAN : Handler(c, ok)
    \/ \E c \in Clients, applied \in BOOLEAN : Cancel(c, applied)
    \/ \E c \in Clients : Close(c)

SpecDb == Init /\ [][NextDb]_vars

\* one call of one runner on one query
NextText == \E r \in Runners, form \in {"native", "pyformat"} : Submit(r, form)

\* no singleton built, no session open; the query is the input
InitQuery == InitSingletons /\ InitDb /\ InitText /\ NoRelay /\ NoHandle /\ NoLog

SpecText == InitQuery /\ [][NextText]_vars

\* one request, or one direct call of the model client
NextRelay == Query \/ GetCompletions \/ Respond \/ ExtractContent

\* no singleton built, no session open; the request and the API's answer
\* are the inputs
InitRequest == InitSingletons /\ InitDb /\ NoText /\ InitRelay /\ NoHandle /\ NoLog

SpecRelay == InitRequest /\ [][NextRelay]_vars

\* the construction of the Database singleton and calls on handles
NextHandle ==
    \/ CreateStarts
    \/ \E ok \in BOOLEAN : SecretsReady(ok)
    \/ \E ok \in BOOLEAN : ItemFetched(ok)
    \/ EngineFails
    \/ \E op \in Ops : UseFresh(op)
    \/ \E op \in Ops : UseInstance(op)
    \/ LeaveScope
    \/ CloseDatabase
    \/ GetCached
    \/ ResetDatabase

\* nothing built yet; the vault item and the deployment are the inputs
InitConstruction ==
    InitSingletons /\ InitDb /\ NoText /\ NoRelay /\ InitHandle /\ QuietLog

SpecHandle == InitConstruction /\ [][NextHandle]_vars

\* the construction, the close and the reset of the Database singleton,
\* followed in two runs
NextUrl ==
    \/ CreateStarts
    \/ \E ok \in BOOLEAN : SecretsReady(ok)
    \/ \E ok \in BOOLEAN : ItemFetched(ok)
    \/ EngineFails
    \/ CloseDatabase
    \/ ResetDatabase

\* nothing built yet; the vault item, the deployment, the passwords of the
\* two runs, the way URLs are written and the logging level are the inputs
InitUrl ==
    InitSingletons /\ InitDb /\ NoText /\ NoRelay /\ InitHandle /\ InitLog

SpecUrl == InitUrl /\ [][NextUrl]_vars

(***************************************************************************)
(* Properties of the singletons                                            *)
(***************************************************************************)

Frames(t) == {stack[t][i] : i \in 1..Len(stack[t])}

\* task t is inside the factory of singleton k
InFlight(t, k) ==
    \E i \in 1..Len(stack[t]) :
        stack[t][i] = k /\ (i < Len(stack[t]) \/ pc[t] = "constructing")

\* C1: on a singleton that was never reset and whose factory never raised, any
\* number of concurrent get_instance() calls invoke the factory exactly once
\* and all return the identical instance.
C1_SingletonUniqueness ==
    \A k \in Singletons :
        (resets[k] = 0 /\ fails[k] = 0) =>
            /\ factoryCalls[k] <= 1
            /\ Cardinality(returned[k]) <= 1
            /\ returned[k] # {} => factoryCalls[k] = 1 /\ returned[k] = {instance[k]}
            /\ \A t \in Tasks :
                   pc[t] = "done" /\ target[t] = k => result[t] = instance[k]

\* three tasks called the same unset singleton concurrently (two of them
\* queued on the lock behind the slow factory) and all have returned
C1_Witness ==
    \E k \in Singletons :
        /\ resets[k] = 0 /\ fails[k] = 0 /\ factoryCalls[k] = 1
        /\ \A t \in Tasks : pc[t] = "done" /\ target[t] = k /\ result[t] = instance[k]
        /\ Cardinality({t \in Tasks : waited[t]}) = 2

\* C2: at most one construction is in flight per singleton in every reachable
\* state, and no construction starts on a singleton whose construction has
\* succeeded since its last reset_instance().
C2_OneConstruction ==
    /\ [](\A k \in Singletons : Cardinality({t \in Tasks : InFlight(t, k)}) <= 1)
    /\ [][\A k \in Singletons :
             factoryCalls'[k] > factoryCalls[k] => ~okSinceReset[k]]_vars

\* a singleton was built, reset and built again, and a later caller got the
\* second instance without building
C2_Witness ==
    \E k \in Singletons :
        /\ factoryCalls[k] = 2 /\ resets[k] = 1 /\ okSinceReset[k]
        /\ \E t \in Tasks :
               pc[t] = "done" /\ target[t] = k /\ ~built[t] /\ result[t] = instance[k]

\* C3: the first get_instance() call after a reset_instance() invokes the
\* factory itself and returns an instance that was not handed out before the
\* reset, in every interleaving.
C3_ResetIsolation ==
    \A t \in Tasks :
        (pc[t] = "done" /\ first[t]) => (built[t] /\ result[t] \notin seen[t])

\* the task that changes in this step passes the lock of singleton k: it was
\* not in get_instance(k) and is now past the queue, or it leaves the queue
PassesLock(t, k) ==
    \/ /\ pc[t] \in {"idle", "done", "raised"}
       /\ pc'[t] \in {"waiting", "constructing"}
       /\ target'[t] = k
       /\ ~(pc'[t] = "waiting" /\ stack'[t] = <<k>>)
    \/ /\ pc[t] = "waiting"
       /\ Top(Cur, t) = k
       /\ <<pc[t], stack[t]>> # <<pc'[t], stack'[t]>>

\* C4: when the factory raises, its caller gets the error, _instance stays
\* unset and the lock is free; and the next caller to pass the lock (a new
\* one or one that was queued) invokes the factory again.
C4_FactoryFailure ==
    /\ [][\A k \in Singletons :
             fails'[k] > fails[k] =>
                 /\ instance'[k] = None
                 /\ ~locked'[LockOf(k)]
                 /\ \E t \in Tasks :
                        /\ InFlight(t, k)
                        /\ pc'[t] = "raised"
                        /\ result'[t] = None]_vars
    /\ [][\A k \in Singletons, t \in Tasks :
             (failedLast[k] /\ PassesLock(t, k)) =>
                 factoryCalls'[k] = factoryCalls[k] + 1]_vars
    /\ [](\A k \in Singletons : failedLast[k] => instance[k] = None)

\* a factory raised to its caller while another caller was queued, and the
\* queued caller then built the instance itself
C4_Witness ==
    \E k \in Singletons, t1, t2 \in Tasks :
        /\ fails[k] = 1 /\ factoryCalls[k] = 2
        /\ pc[t1] = "raised" /\ target[t1] = k
        /\ pc[t2] = "done" /\ target[t2] = k /\ waited[t2] /\ built[t2]
        /\ result[t2] = instance[k] /\ result[t2] # None

\* C5: a caller that arrives while a construction is in flight stays blocked
\* until that construction ends and, when it succeeded and the singleton was
\* not reset since, returns the instance it produced; get_instance() never
\* returns the unset value, whatever the resets; every blocked caller
\* eventually returns or raises.
C5_Safe ==
    \A t \in Tasks :
        /\ pc[t] = "done" => result[t] # None
        /\ (arrivedDuring[t] > 0 /\ completed[target[t]] < arrivedDuring[t]) =>
               (pc[t] = "waiting" /\ stack[t] = <<target[t]>>)
        /\ (pc[t] = "done" /\ expect[t] # None /\ ~resetSince[t]) =>
               result[t] = expect[t]

C5_BlockedCallers ==
    /\ []C5_Safe
    /\ \A t \in Tasks : (pc[t] = "waiting") ~> (pc[t] \in {"done", "raised"})

\* a caller that was queued behind a successful construction has returned
\* the instance that construction produced, without building
C5_Witness ==
    \E t \in Tasks :
        /\ pc[t] = "done" /\ waited[t] /\ ~built[t] /\ ~resetSince[t]
        /\ expect[t] # None /\ result[t] = expect[t]

\* a task is inside get_instance(): queued on a lock or in a factory
Calling(t) == pc[t] \in {"waiting", "constructing"}

\* C24: with concurrent first calls on DatabaseFactory, PhalaFactory and
\* SecretsFactory and no reset, every call ends (it returns, or it raises when
\* a factory raised), no task waits for a lock that is never released; when
\* no factory raised, the calls return an instance, OnePasswordManager was
\* constructed at most once, exactly once when a call has returned, and every
\* create() was given that one secrets manager.
C24_NestedConstruction ==
    /\ [](fails["SecretsFactory"] = 0 =>
            /\ factoryCalls["SecretsFactory"] <= 1
            /\ \A t \in Tasks :
                   /\ manager[t] # None => manager[t] = instance["SecretsFactory"]
                   /\ (pc[t] = "done" /\ target[t] \in Nested) =>
                          /\ result[t] # None
                          /\ factoryCalls["SecretsFactory"] = 1
                          /\ (built[t] /\ Dep(target[t]) # "none") => manager[t] # None)
    /\ \A t \in Tasks : Calling(t) ~> (pc[t] \in {"done", "raised"})
    /\ \A t \in Tasks : [](upsets = 0) => (Calling(t) ~> pc[t] = "done")

\* three tasks called the three factories, one each; all three have returned,
\* the secrets manager was built once, and both Database.create and
\* PhalaModel.create were given it
C24_Witness ==
    /\ \A t \in Tasks : pc[t] = "done"
    /\ {target[t] : t \in Tasks} = Nested
    /\ factoryCalls["SecretsFactory"] = 1 /\ upsets = 0
    /\ \A t \in Tasks :
           Dep(target[t]) # "none" =>
               (built[t] /\ manager[t] = instance["SecretsFactory"])
    /\ Cardinality({instance[k] : k \in Nested}) = 3

(***************************************************************************)
(* Properties of the session scopes                                        *)
(***************************************************************************)

Ended(n) == scope[n].outcome \in {"ok", "error", "cancelled"}

\* the writes executed in scope n
WritesOf(n) == {<<n, i>> : i \in 1..scope[n].nwrites}

IsOf(n, w) == w[1] = n

\* what the store holds of scope n, in store order
Durable(n) == SelectSeq(committed, LAMBDA w : IsOf(n, w))

\* the effects of all statements of execute_in_transaction call n, in list order
AllOf(n) == [i \in 1..scope[n].qlen |-> <<n, i>>]

\* the scope raised an error of its own (statement, body or commit) and was
\* not cancelled while handling it
Errored(n) == Ended(n) /\ scope[n].orig # "none" /\ scope[n].outcome # "cancelled"

C7_CommitOnSuccess ==
    \A n \in ScopeIds :
        (scope[n].kind \in {"session", "run_query"} /\ scope[n].outcome = "ok") =>
            /\ scope[n].commits >= 1
            /\ WritesOf(n) \subseteq Range(committed)
            /\ \A c \in Clients :
                   (n \in sess[c].prior /\ sess[c].nreads > 0) =>
                       WritesOf(n) \subseteq sess[c].seen

\* a write of a completed auto-commit scope was read in a later scope
C7_Witness ==
    \E n \in ScopeIds, c \in Clients :
        /\ scope[n].kind \in {"session", "run_query"} /\ scope[n].outcome = "ok"
        /\ scope[n].nwrites >= 1 /\ ~scope[n].explicit
        /\ n \in sess[c].prior /\ sess[c].nreads > 0
        /\ WritesOf(n) \subseteq sess[c].seen

C9_SessionClosed ==
    /\ \A n \in ScopeIds : Ended(n) => scope[n].closed
    /\ \A c \in Clients : dpc[c] = "idle" => ~sess[c].open

\* one scope was left after its rollback raised, another one was left
\* normally, and both sessions are closed
C9_Witness ==
    \E n, m \in ScopeIds :
        /\ Ended(n) /\ scope[n].rbFailed /\ scope[n].raised = "rollback" /\ scope[n].closed
        /\ scope[m].outcome = "ok" /\ scope[m].closed
        /\ \A c \in Clients : dpc[c] = "idle" /\ ~sess[c].open

C11_ResolvedOnce ==
    \A n \in ScopeIds :
        (/\ scope[n].kind \in Runners
         /\ Ended(n) /\ scope[n].outcome # "cancelled"
         /\ scope[n].orig # "commit") =>
            /\ scope[n].commits + scope[n].rollbacks = 1
            /\ ~scope[n].late

\* C14: a run_insert_query_with_id call whose insert succeeded, and which met
\* no failure of the connection and no cancellation, returns the identifier
\* generated for its own row (also next to inserts of other sessions), after
\* exactly one lookup on the same session and with the insert committed.
C14_InsertId ==
    \A n \in ScopeIds :
        (/\ scope[n].kind = "run_insert_query_with_id"
         /\ Ended(n) /\ scope[n].outcome # "cancelled"
         /\ scope[n].nwrites = 1
         /\ scope[n].orig = "none" \/ scope[n].undef) =>
            /\ scope[n].outcome = "ok"
            /\ scope[n].ret = n
            /\ scope[n].lookups = 1
            /\ <<n, 1>> \in Range(committed)

\* an execute_in_transaction call with an empty list is under way at client c
EmptyTransaction(c) ==
    sess[c].op = "execute_in_transaction" /\ sess[c].qlen = 0 /\ dpc[c] # "idle"

\* C21: an execute_in_transaction call hands True to its caller only when
\* every statement of the list was executed and all of them are committed; a
\* call in which a statement or a commit failed hands over no value and ends
\* with an error; a call with an empty list (not cancelled) hands over True,
\* and no step of it changes the store.
C21_SuccessFlag ==
    /\ [](\A n \in ScopeIds :
            (scope[n].kind = "execute_in_transaction" /\ Ended(n)) =>
                /\ scope[n].got = "True" =>
                       /\ scope[n].outcome = "ok"
                       /\ scope[n].nwrites = scope[n].qlen
                       /\ scope[n].commits >= 1
                       /\ Durable(n) = AllOf(n)
                /\ scope[n].orig # "none" =>
                       /\ scope[n].got = "none"
                       /\ scope[n].outcome # "ok"
                       /\ scope[n].raised # "none"
                /\ (scope[n].qlen = 0 /\ scope[n].outcome # "cancelled") =>
                       /\ scope[n].got = "True"
                       /\ Durable(n) = <<>>)
    /\ [][\A c \in Clients :
              (EmptyTransaction(c) /\ dpc'[c] # dpc[c]) => committed' = committed]_vars

\* one call executed both statements of its list and returned True with both
\* stored; another executed its only statement, reached `return True`, and
\* the commit that follows failed: it raised and handed over nothing
C21_Witness ==
    \E n, m \in ScopeIds :
        /\ scope[n].kind = "execute_in_transaction" /\ scope[n].qlen = 2
        /\ scope[n].got = "True" /\ Durable(n) = AllOf(n)
        /\ scope[m].kind = "execute_in_transaction" /\ scope[m].qlen = 1
        /\ scope[m].nwrites = 1 /\ scope[m].flag = "True" /\ scope[m].orig = "commit"
        /\ scope[m].outcome = "error" /\ scope[m].got = "none" /\ Durable(m) = <<>>

(***************************************************************************)
(* Properties of the query text                                            *)
(***************************************************************************)

\* the text holds no %(name)s token
Native(q) == \A i \in 1..Len(q) : MatchEnd(q, i) = 0

\* the statement a runner is expected to submit for a query in native
\* syntax: the query itself (run_query trims it)
NativeStatement(r, q) == IF r = "run_query" THEN Strip(q) ELSE q

\* C12 as claimed: when the trimmed text begins with SELECT, WITH or RETURNING
\* (exact case) run_query returns the row-mappings in result order, columns in
\* order; for any other statement it returns a marker that differs from what
\* a SELECT matching zero rows returns.
C12_ReadWriteClassification ==
    (qpc = "done" /\ qrunner = "run_query") =>
        /\ StartsWithKeyword(Strip(Translate(qin))) =>
               /\ Len(qret) = Len(qrows)
               /\ \A i \in 1..Len(qrows) : \A j \in 1..Len(Columns) :
                      qret[i][j] = <<Columns[j], qrows[i][j]>>
        /\ ~StartsWithKeyword(Strip(Translate(qin))) =>
               qret # RowsToDicts(Columns, <<>>)

\* C13: each runner rewrites every %(name)s token to :name and nothing else.
\* A query in native syntax reaches session.execute unchanged, the same
\* query written with %(name)s tokens reaches it as that same statement, the
\* parameter mapping is passed on as it is, and translating twice gives what
\* translating once gives.
C13_PlaceholderTranslation ==
    qpc = "done" =>
        /\ qsentParams = qparams
        /\ Native(qtext) => qsent = NativeStatement(qrunner, qtext)
        /\ Native(Translate(qin))
        /\ Translate(Translate(qin)) = Translate(qin)

\* a query whose placeholder was written as a %(name)s token, with text
\* after it, was submitted by execute_in_transaction in native syntax
C13_Witness ==
    /\ qpc = "done" /\ qrunner = "execute_in_transaction"
    /\ qtext = <<":", "a", ")", "s">>
    /\ qin = <<"%", "(", "a", ")", "s", ")", "s">>
    /\ qsent = qtext /\ qparams = 1 /\ qsentParams = 1

(***************************************************************************)
(* Properties of the relay                                                 *)
(***************************************************************************)

\* C15: QueryService.query rejects a query of length 0 or of length 1000 and
\* more before it obtains any singleton and before any POST: the call raises,
\* nothing was obtained, nothing was sent, no response is returned.  A query
\* of length 1..999 passes the validation.
C15_InputValidation ==
    (rentry = "query" /\ rpc # "input") =>
        /\ (rlen = 0 \/ rlen >= 1000) =>
               /\ rpc = "done"
               /\ rout.kind = "AssertionError"
               /\ robtained = {}
               /\ rposts = 0
        /\ (rlen >= 1 /\ rlen <= 999) => "PhalaService" \in robtained

\* a query of exactly 1000 characters was rejected with nothing obtained
C15_Witness ==
    /\ rentry = "query" /\ rpc = "done" /\ rlen = 1000
    /\ rout.kind = "AssertionError" /\ robtained = {} /\ rposts = 0

\* C16 as claimed: for a valid query, when the API answers 200 with a
\* well-formed completion, QueryService.query has made exactly one POST
\* through the model client and returns the content of choices[0].message.
C16_Relay ==
    (/\ rentry = "query" /\ rpc = "done"
     /\ rlen >= 1 /\ rlen <= 999
     /\ reply.conn /\ reply.status = 200 /\ reply.ctype = "json"
     /\ reply.body = "completion") =>
        /\ rposts = 1
        /\ rout = [kind |-> "response", status |-> 0, value |-> "content"]

\* C17 as claimed: when the API answers with a status outside 2xx, or with a
\* body that is no JSON, the call of the model client raises HTTPError with
\* that status and the raw body, after exactly one request.
C17_UpstreamErrors ==
    (/\ rentry = "get_completions" /\ rpc = "done" /\ reply.conn
     /\ \/ reply.status < 200 \/ reply.status > 299
        \/ reply.ctype # "json"
        \/ reply.body = "invalid") =>
        /\ rout.kind = "HTTPError"
        /\ rout.status = reply.status
        /\ rout.value = reply.body
        /\ rposts = 1

MissingFields == {"username", "database", "password"} \ vault

\* C18: the engine is never created with partial parameters.  When the vault
\* item lacks the database name, the username or the password, the
\* construction that got the item ends in an error naming a missing field,
\* create_async_engine was never called, the object has no engine and no
\* session factory, and DatabaseFactory._instance stays unset.
C18_NoPartialEngine ==
    /\ (engines > 0 \/ hobj.engine \/ hobj.async_session) => MissingFields = {}
    /\ MissingFields # {} =>
           /\ ~hcached
           /\ (hpc = "idle" /\ herr \notin {"none", "secrets", "item"}) =>
                  herr \in MissingFields

\* the item has username and database but no password: the construction
\* failed naming the password, after two fields were read, with no engine
C18_Witness ==
    /\ vault = {"username", "database", "hostname"}
    /\ hpc = "idle" /\ herr = "password"
    /\ hobj.user /\ hobj.db_name /\ ~hobj.password
    /\ ~hobj.engine /\ ~hobj.async_session /\ engines = 0 /\ ~hcached

\* C19: a runner or scope called on a Database whose engine and session
\* factory are unset raises (naming the field), executes no statement, and
\* leaves the fields of the handle as they were: nothing is constructed on
\* the fly.
C19_UseBeforeConstruction ==
    /\ fresh = NewDatabase
    /\ \A on \in {"fresh", "instance"} :
           LET h == IF on = "fresh" THEN fresh ELSE held
           IN  (use.on = on /\ (~h.engine \/ ~h.async_session)) =>
                   /\ use.outcome \in {"engine", "async_session"}
                   /\ ~use.executed

\* execute_in_transaction, which has no assert of its own, was called on a
\* bare Database() and raised in self.session()
C19_Witness ==
    /\ use.on = "fresh" /\ use.op = "execute_in_transaction"
    /\ use.outcome = "async_session" /\ ~use.executed
    /\ fresh = NewDatabase

\* every call made on the handed-out instance got its session
C20_Usable == use.on = "instance" => (use.outcome = "session" /\ use.executed)

\* C20: reset_instance() changes the cached reference and nothing else: the
\* step disposes no engine and leaves the instance handed out earlier, the
\* sessions open on it and every other object as they were; the instance
\* stays usable afterwards.
C20_ResetFrame ==
    /\ []C20_Usable
    /\ [][hresets' # hresets =>
             /\ ~hcached'
             /\ hdisposed' = hdisposed
             /\ held' = held /\ hopen' = hopen
             /\ hobj' = hobj /\ fresh' = fresh /\ engines' = engines
             /\ svars' = svars /\ dvars' = dvars]_vars

\* after a reset a second instance was built and cached, and the caller of
\* the first one, still inside a scope, ran a query on it
C20_Witness ==
    /\ hresets >= 1 /\ hcached /\ hobj.id = 2
    /\ held.id = 1 /\ held.engine /\ held.async_session /\ hopen = 1
    /\ hdisposed = {}
    /\ use.on = "instance" /\ use.op = "run_query" /\ use.after >= 1
    /\ use.outcome = "session"

C25_CloseFrame ==
    /\ [](/\ held.id \in hdisposed => (held.engine /\ held.async_session)
          /\ (use.on = "instance" /\ use.disposed) =>
                 (use.outcome = "session" /\ use.executed)
          /\ hgot.disposed => hgot.id \in hdisposed)
    /\ [][hcloses' # hcloses =>
             /\ hdisposed' = hdisposed \cup {held.id}
             /\ held' = held /\ hobj' = hobj /\ fresh' = fresh
             /\ hcached' = hcached /\ engines' = engines /\ hpc' = hpc]_vars
    /\ [][hgot' # hgot =>
             /\ hcached /\ hgot'.id = hobj.id
             /\ hobj' = hobj /\ hcached' /\ engines' = engines /\ hpc' = hpc
             /\ (hresets = 0 /\ hcloses > 0) => (hgot'.id = held.id /\ hgot'.disposed)]_vars

\* the handle was closed twice (the second close passed its assert), then
\* get_instance() returned that same handle with no second engine built, and
\* run_query on it passed its asserts
C25_Witness ==
    /\ hcloses = 2 /\ hresets = 0 /\ engines = 1 /\ hcached
    /\ held.id = 1 /\ hobj = held /\ hdisposed = {1}
    /\ hgot = [id |-> 1, disposed |-> TRUE]
    /\ use.on = "instance" /\ use.op = "run_query" /\ use.disposed
    /\ use.outcome = "session"

====
